---- MODULE Spec2Model ----
(***************************************************************************)
(* Round Resolution Engine of the slot game: the symbol generator          *)
(* (utils/gameLogic), the round sequencer and continuation resolver        *)
(* (components/GameScreen), the premium sub-event (components/PremiumModal)*)
(* and the session plumbing (App, HomeScreen, ResultScreen).               *)
(*                                                                         *)
(* React state is modelled by one variable per useState cell.  A handler   *)
(* of GameScreen reads the values its closure captured at the last render  *)
(* (the variable view) and writes the cells; a step of Spec is one handler *)
(* followed by the re-render React performs before the next event.         *)
(* A setTimeout is an entry of a FIFO queue holding what its callback's    *)
(* closure captured.                                                       *)
(*                                                                         *)
(* Symbols are named: cherry, lemon, grape, diamond, bell, star stand for  *)
(* the six emoji of SYMBOLS in table order; "q" is the spinning            *)
(* placeholder and "null" the initial empty reel.  Probabilities are in    *)
(* percent and weights in quarters, so all arithmetic is on integers.      *)
(***************************************************************************)
EXTENDS Integers, Sequences, FiniteSets, TLC

(* ------------------------------ bounds --------------------------------- *)
\* continueCount is followed up to this value
MaxContinue == 1
\* pending revival timeouts of the result screen
MaxRevivalTimers == 1
\* pending timeouts of the game screen when a call is made before the re-render
MaxTimers == 1
\* how many rate buttons of the home screen are pressed
NumRates == 1
\* the largest value of Math.random() * totalWeight, in quarters, the generator
\* is applied to; the values above totalWeight are those the loop selects
\* nothing for
MaxDraw == 403

(* --------------------------- utils/gameLogic --------------------------- *)
SYMBOLS == <<"cherry", "lemon", "grape", "diamond", "bell", "star">>

\* a table that gives the premium symbol the weight of a common one
EqualSymbolWeights == <<4, 95, 95, 95, 95, 95>>

\* BASE_SYMBOL_WEIGHTS in quarters: 1, 23.75 x 4, 4.5
BASE_SYMBOL_WEIGHTS == <<4, 95, 95, 95, 95, 18>>

RECURSIVE SumWeights(_)
SumWeights(k) == IF k = 0 THEN 0 ELSE BASE_SYMBOL_WEIGHTS[k] + SumWeights(k - 1)

totalWeight == SumWeights(Len(BASE_SYMBOL_WEIGHTS))

\* the loop of generateWeightedSymbol from table entry k on, with running
\* remainder random; the fallback is returned when the table is exhausted
RECURSIVE WeightedLoop(_, _)
WeightedLoop(random, k) ==
    IF k > Len(SYMBOLS) THEN "lemon"
    ELSE IF random - BASE_SYMBOL_WEIGHTS[k] <= 0 THEN SYMBOLS[k]
    ELSE WeightedLoop(random - BASE_SYMBOL_WEIGHTS[k], k + 1)

\* a loop that stops on a strictly negative remainder
RECURSIVE WeightedLoopStrict(_, _)
WeightedLoopStrict(random, k) ==
    IF k > Len(SYMBOLS) THEN "lemon"
    ELSE IF random - BASE_SYMBOL_WEIGHTS[k] < 0 THEN SYMBOLS[k]
    ELSE WeightedLoopStrict(random - BASE_SYMBOL_WEIGHTS[k], k + 1)

generateWeightedSymbolStrict(random) == WeightedLoopStrict(random, 1)

\* a loop without the fallback: the reel is left without a symbol
RECURSIVE WeightedLoopNoFallback(_, _)
WeightedLoopNoFallback(random, k) ==
    IF k > Len(SYMBOLS) THEN "null"
    ELSE IF random - BASE_SYMBOL_WEIGHTS[k] <= 0 THEN SYMBOLS[k]
    ELSE WeightedLoopNoFallback(random - BASE_SYMBOL_WEIGHTS[k], k + 1)

generateWeightedSymbolNoFallback(random) == WeightedLoopNoFallback(random, 1)

\* generateWeightedSymbol for the draw Math.random() * totalWeight = random
generateWeightedSymbol(random) == WeightedLoop(random, 1)

\* a small yaku test that lets the premium symbol through
checkSmallYakuMatchAnyCommon(symbols) ==
    IF Len(symbols) # 3 THEN FALSE
    ELSE /\ symbols[1] = symbols[2]
         /\ symbols[2] = symbols[3]
         /\ symbols[1] # "cherry"

checkSmallYakuMatch(symbols) ==
    IF Len(symbols) # 3 THEN FALSE
    ELSE /\ symbols[1] = symbols[2]
         /\ symbols[2] = symbols[3]
         /\ symbols[1] # "cherry"
         /\ symbols[1] # "star"

\* the nested loops of countCherries, from symbol k of reel n on
RECURSIVE countCherriesLoop(_, _, _)
countCherriesLoop(reels, n, k) ==
    IF n > Len(reels) THEN 0
    ELSE IF k > Len(reels[n]) THEN countCherriesLoop(reels, n + 1, 1)
    ELSE (IF reels[n][k] = "cherry" THEN 1 ELSE 0) + countCherriesLoop(reels, n, k + 1)

countCherries(reels) == countCherriesLoop(reels, 1, 1)

\* a premium flag of two symbols
generatePremiumFlagPair == <<"star", "star">>

generatePremiumFlag == <<"star", "star", "star">>

\* a premium test without the length test
isPremiumFlagAnyLength(symbols) ==
    \A k \in 1..Len(symbols) : symbols[k] = "star"

isPremiumFlag(symbols) ==
    Len(symbols) = 3 /\ \A k \in 1..Len(symbols) : symbols[k] = "star"

NotCherry(symbol) == symbol # "cherry"

\* the three cherries-first entries of the cherry branch before the shuffle:
\* cherryCount cherries, then weighted symbols
cherriesFirst(cherryCount, second, third) ==
    <<"cherry",
      IF cherryCount >= 2 THEN "cherry" ELSE second,
      IF cherryCount >= 3 THEN "cherry" ELSE third>>

\* the orders sort(() => Math.random() - 0.5) can leave three entries in
Shuffles(result) ==
    {[k \in 1..3 |-> result[order[k]]] :
        order \in {f \in [1..3 -> 1..3] : {f[k] : k \in 1..3} = 1..3}}

\* a small yaku branch that indexes all five symbols left by the filter
generateSpinResultAnyOfFive(shouldIncludeCherry, shouldMakeSmallYaku, random) ==
    LET yakuSymbol == SelectSeq(SYMBOLS, NotCherry)[(random \div 20) + 1]
    IN  {<<yakuSymbol, yakuSymbol, yakuSymbol>>}

\* the results generateSpinResult can return; random is its first
\* Math.random(), in percent: the draw of the cherry count, or the index
\* floor(Math.random() * 4) of the small yaku symbol
generateSpinResult(shouldIncludeCherry, shouldMakeSmallYaku, random) ==
    LET weighted == {generateWeightedSymbol(r) : r \in 0..(totalWeight - 1)}
    IN  IF shouldIncludeCherry
        THEN UNION {Shuffles(cherriesFirst(cherryCount, second, third)) :
                        cherryCount \in (IF random < 30 THEN {3} ELSE {2, 1}),
                        second \in weighted, third \in weighted}
        ELSE IF shouldMakeSmallYaku
        THEN LET yakuSymbol == SelectSeq(SYMBOLS, NotCherry)[(random \div 25) + 1]
             IN  {<<yakuSymbol, yakuSymbol, yakuSymbol>>}
        ELSE [1..3 -> weighted]

\* the draws floor(Math.random() * PremiumScale) of checkPremiumFlag
PremiumScale == 319

\* checkPremiumFlag: Math.random() < 1, on a draw in units of 1/PremiumScale
checkPremiumFlag(random) == random < 1 * PremiumScale

(* ---------------------------- random source ---------------------------- *)
\* values of Math.random() * totalWeight (in quarters) a reel stop may draw:
\* one for each kind of symbol the sequencer and the resolver tell apart
\* (0 gives the cherry, 50 a common symbol, 400 the premium symbol)
Draws == {0, 50, 400}

\* floor(100 * Math.random()): Math.random() < p/100 iff the value is < p
Percent == 0..99

ContinueRates == {29, 50, 70, 81, 90, 99}


\* the rate buttons of HomeScreen the model presses: the first NumRates of
\* this table
RateTable == <<70, 29, 99, 50, 81, 90>>

RateButtons == {RateTable[k] : k \in 1..(IF NumRates < Len(RateTable) THEN NumRates ELSE Len(RateTable))}

(* ------------------------------- state --------------------------------- *)
VARIABLES
    currentScreen,       \* App: 'home' | 'game' | 'result'
    continueRate,        \* App: the rate handed to GameScreen, in percent
    finalContinueCount,  \* App: the count handed to ResultScreen
    selectedRate,        \* HomeScreen: the selected rate button
    showRevivalEffect,   \* ResultScreen
    revivalTimers,       \* ResultScreen: pending revival timeouts, FIFO
    game,                \* GameScreen: its useState cells, one field each
    view,                \* GameScreen: the cells as of the last render, which
                         \* the handlers' closures read
    pendingRender,       \* a handler has run and the view has not refreshed
    timers,              \* GameScreen: pending timeouts, FIFO
    phase,               \* PremiumModal
    selectedOption,      \* PremiumModal
    premiumTimer,        \* PremiumModal: its pending timeout
    lastOp,              \* history: the last handler invoked and its argument
    stoppedReels,        \* history: reels of the active spin stopped while spinning
    completedSpins,      \* history: spins of the round with all reels so stopped
    resolutions,         \* history: checkRoundResult calls in the current round
    resolvedRecord,      \* history: the record handed to the last such call
    outcome,             \* history: what that call decided
    continuedRounds,     \* history: rounds continued since the screen was entered
    gameEndCalls         \* history: onGameEnd calls since the screen was entered

appVars == <<currentScreen, continueRate, finalContinueCount, selectedRate>>
resultVars == <<showRevivalEffect, revivalTimers>>
premiumVars == <<phase, selectedOption, premiumTimer>>
roundHistory == <<stoppedReels, completedSpins, resolutions, resolvedRecord, outcome>>
sessionHistory == <<continuedRounds, gameEndCalls>>
vars == <<currentScreen, continueRate, finalContinueCount, selectedRate,
          showRevivalEffect, revivalTimers, game, view, pendingRender, timers,
          phase, selectedOption, premiumTimer, lastOp, stoppedReels,
          completedSpins, resolutions, resolvedRecord, outcome,
          continuedRounds, gameEndCalls>>

Reels == 0..2

AllOf(x) == <<x, x, x>>

\* the useState initial values of GameScreen
GameScreenState ==
    [remainingStops |-> 9, continueCount |-> 0, reels |-> AllOf("null"),
     isSpinning |-> AllOf(FALSE), currentSpinIndex |-> 0,
     showDrinkModal |-> FALSE, drinkCount |-> 0, showRushEffect |-> FALSE,
     rushNumber |-> 0, allSpinResults |-> <<>>, showGameOver |-> FALSE,
     showPremiumModal |-> FALSE]

NoTimer == [kind |-> "none", count |-> 0, live |-> FALSE]

Op(name, arg) == [op |-> name, arg |-> arg]

(* ------------------------ GameScreen: the sequencer -------------------- *)
\* a startSpin that leaves the symbols of the last spin on the reels
startSpinKeepsReels(g, spinIndex) ==
    IF spinIndex >= 3 THEN g
    ELSE [g EXCEPT !.currentSpinIndex = spinIndex,
                   !.isSpinning = AllOf(TRUE)]

startSpin(g, spinIndex) ==
    IF spinIndex >= 3 THEN g
    ELSE [g EXCEPT !.currentSpinIndex = spinIndex,
                   !.isSpinning = AllOf(TRUE),
                   !.reels = AllOf("q")]

\* a startNewRound that does not give the nine stops back
startNewRoundKeepsStops(g) ==
    startSpin([g EXCEPT !.allSpinResults = <<>>,
                        !.currentSpinIndex = 0,
                        !.reels = AllOf("null"),
                        !.isSpinning = AllOf(FALSE),
                        !.showGameOver = FALSE], 0)

\* a startNewRound that keeps the record of the round before
startNewRoundKeepsRecord(g) ==
    startSpin([g EXCEPT !.remainingStops = 9,
                        !.currentSpinIndex = 0,
                        !.reels = AllOf("null"),
                        !.isSpinning = AllOf(FALSE),
                        !.showGameOver = FALSE], 0)

startNewRound(g) ==
    startSpin([g EXCEPT !.allSpinResults = <<>>,
                        !.remainingStops = 9,
                        !.currentSpinIndex = 0,
                        !.reels = AllOf("null"),
                        !.isSpinning = AllOf(FALSE),
                        !.showGameOver = FALSE], 0)

\* a stopReel without its guard
stopReelNeverIgnored(v, reelIndex) == FALSE

\* the guard of stopReel, on the isSpinning its closure captured
stopReelIgnored(v, reelIndex) == ~v.isSpinning[reelIndex + 1]

\* a newReels that does not copy the reels already stopped
newReelsOfBlank(v, reelIndex, random) ==
    [AllOf("q") EXCEPT ![reelIndex + 1] = generateWeightedSymbol(random)]

\* a call whose symbol is the cherry at the two highest rates
symbolForRate(rate, random) ==
    IF rate >= 90 THEN "cherry" ELSE generateWeightedSymbol(random)

\* the call generateWeightedSymbol(continueRate) of stopReel: the rate is
\* passed, and the function has no parameter to receive it
symbolFor(rate, random) == generateWeightedSymbol(random)

\* newReels for a screen rendered with the continueRate prop rate
newReelsAt(v, reelIndex, rate, random) ==
    [v.reels EXCEPT ![reelIndex + 1] = symbolFor(rate, random)]

newReelsOf(v, reelIndex, random) == newReelsAt(v, reelIndex, continueRate, random)

newSpinningOf(v, reelIndex) == [v.isSpinning EXCEPT ![reelIndex + 1] = FALSE]

\* a spin that counts as complete with its first stopped reel
anyStopped(spinning) == \E k \in 1..Len(spinning) : ~spinning[k]

allStopped(spinning) == \A k \in 1..Len(spinning) : ~spinning[k]

hasCherryIn(symbols) == \E k \in 1..Len(symbols) : symbols[k] = "cherry"

\* an early exit on the cherry alone
isWinningSpinCherryOnly(symbols) == hasCherryIn(symbols)

\* an early exit on the premium flag as well
isWinningSpinOrPremium(symbols) ==
    hasCherryIn(symbols) \/ checkSmallYakuMatch(symbols) \/ isPremiumFlag(symbols)

\* the test that ends the round at once
isWinningSpin(symbols) == hasCherryIn(symbols) \/ checkSmallYakuMatch(symbols)

\* a timeout that resolves the round after every spin
afterSpinTimerAlwaysCheck(v, newReels, rate) ==
    [kind |-> "check",
     results |-> Append(v.allSpinResults, newReels),
     spinIndex |-> v.currentSpinIndex,
     count |-> v.continueCount,
     rate |-> rate,
     live |-> TRUE]

\* a timeout that goes on to the next spin whatever the spin holds
afterSpinTimerAlwaysNext(v, newReels, rate) ==
    [kind |-> "next",
     results |-> Append(v.allSpinResults, newReels),
     spinIndex |-> v.currentSpinIndex,
     count |-> v.continueCount,
     rate |-> rate,
     live |-> TRUE]

\* the timeout stopReel schedules once all reels are stopped
\* (its closure holds the record, the spin index, continueCount and the
\* continueRate prop of the render stopReel comes from)
afterSpinTimer(v, newReels, rate) ==
    [kind |-> IF isWinningSpin(newReels) THEN "check" ELSE "next",
     results |-> Append(v.allSpinResults, newReels),
     spinIndex |-> v.currentSpinIndex,
     count |-> v.continueCount,
     rate |-> rate,
     live |-> TRUE]

\* the cells stopReel sets, from the closure's values
stopReelState(g, v, reelIndex, random) ==
    LET newReels == newReelsOf(v, reelIndex, random)
        newSpinning == newSpinningOf(v, reelIndex)
    IN  [g EXCEPT !.reels = newReels,
                  !.isSpinning = newSpinning,
                  !.remainingStops = v.remainingStops - 1,
                  !.allSpinResults = IF allStopped(newSpinning)
                                     THEN Append(v.allSpinResults, newReels)
                                     ELSE @]

\* a stopReel that schedules nothing after the last reel
stopReelTimersNone(q, v, reelIndex, random, rate) == q

stopReelTimers(q, v, reelIndex, random, rate) ==
    IF allStopped(newSpinningOf(v, reelIndex))
    THEN Append(q, afterSpinTimer(v, newReelsOf(v, reelIndex, random), rate))
    ELSE q

(* ------------------ GameScreen: the continuation resolver -------------- *)
\* a count of one for a spin with a cherry, whatever their number
countInAtMostOne(symbols) ==
    IF \E k \in 1..Len(symbols) : symbols[k] = "cherry" THEN 1 ELSE 0

countIn(symbols) == Cardinality({k \in 1..Len(symbols) : symbols[k] = "cherry"})

\* the three accumulators of checkRoundResult over the first n spin results
RECURSIVE cherryCountOf(_, _)
cherryCountOf(finalSpinResults, n) ==
    IF n = 0 THEN 0
    ELSE cherryCountOf(finalSpinResults, n - 1) + countIn(finalSpinResults[n])

hasSmallYakuOf(finalSpinResults) ==
    \E n \in 1..Len(finalSpinResults) : checkSmallYakuMatch(finalSpinResults[n])

hasPremiumFlagOf(finalSpinResults) ==
    \E n \in 1..Len(finalSpinResults) : isPremiumFlag(finalSpinResults[n])

\* the three accumulators after the loop of checkRoundResult
classify(finalSpinResults) ==
    [cherryCount |-> cherryCountOf(finalSpinResults, Len(finalSpinResults)),
     hasSmallYaku |-> hasSmallYakuOf(finalSpinResults),
     hasPremiumFlag |-> hasPremiumFlagOf(finalSpinResults)]

\* a resolver whose three-cherry round draws for the reveal like a two-cherry one
decisionNoGuaranteedDrink(finalSpinResults, rate, random) ==
    LET cherryCount == cherryCountOf(finalSpinResults, Len(finalSpinResults))
    IN  IF hasPremiumFlagOf(finalSpinResults) THEN "premium"
        ELSE IF cherryCount > 0 THEN
            IF cherryCount >= 2 THEN (IF random < 30 THEN "drink" ELSE "proceed")
            ELSE "proceed"
        ELSE IF hasSmallYakuOf(finalSpinResults) THEN
            (IF random < 20 THEN "drink" ELSE "proceed")
        ELSE IF random < rate THEN "proceed"
        ELSE "end"

\* a resolver whose one-cherry round draws for the reveal
decisionDrinkFromOne(finalSpinResults, rate, random) ==
    LET cherryCount == cherryCountOf(finalSpinResults, Len(finalSpinResults))
    IN  IF hasPremiumFlagOf(finalSpinResults) THEN "premium"
        ELSE IF cherryCount > 0 THEN
            IF cherryCount >= 3 THEN "drink"
            ELSE (IF random < 30 THEN "drink" ELSE "proceed")
        ELSE IF hasSmallYakuOf(finalSpinResults) THEN
            (IF random < 20 THEN "drink" ELSE "proceed")
        ELSE IF random < rate THEN "proceed"
        ELSE "end"

\* a resolver whose two-cherry round always shows the reveal
decisionDrinkFromTwo(finalSpinResults, rate, random) ==
    LET cherryCount == cherryCountOf(finalSpinResults, Len(finalSpinResults))
    IN  IF hasPremiumFlagOf(finalSpinResults) THEN "premium"
        ELSE IF cherryCount > 0 THEN
            IF cherryCount >= 2 THEN "drink"
            ELSE "proceed"
        ELSE IF hasSmallYakuOf(finalSpinResults) THEN
            (IF random < 20 THEN "drink" ELSE "proceed")
        ELSE IF random < rate THEN "proceed"
        ELSE "end"

\* a resolver that looks at the cherries before the premium flag
decisionCherryFirst(finalSpinResults, rate, random) ==
    LET cherryCount == cherryCountOf(finalSpinResults, Len(finalSpinResults))
    IN  IF cherryCount > 0 THEN
            IF cherryCount >= 3 THEN "drink"
            ELSE IF cherryCount >= 2 THEN (IF random < 30 THEN "drink" ELSE "proceed")
            ELSE "proceed"
        ELSE IF hasPremiumFlagOf(finalSpinResults) THEN "premium"
        ELSE IF hasSmallYakuOf(finalSpinResults) THEN
            (IF random < 20 THEN "drink" ELSE "proceed")
        ELSE IF random < rate THEN "proceed"
        ELSE "end"

\* a resolver that leaves the small yaku to the continuation rate
decisionWithoutYaku(finalSpinResults, rate, random) ==
    LET cherryCount == cherryCountOf(finalSpinResults, Len(finalSpinResults))
    IN  IF hasPremiumFlagOf(finalSpinResults) THEN "premium"
        ELSE IF cherryCount > 0 THEN
            IF cherryCount >= 3 THEN "drink"
            ELSE IF cherryCount >= 2 THEN (IF random < 30 THEN "drink" ELSE "proceed")
            ELSE "proceed"
        ELSE IF random < rate THEN "proceed"
        ELSE "end"

\* the branch checkRoundResult takes; random is the one Math.random() of the
\* branch, in percent
decision(finalSpinResults, rate, random) ==
    LET cherryCount == cherryCountOf(finalSpinResults, Len(finalSpinResults))
    IN  IF hasPremiumFlagOf(finalSpinResults) THEN "premium"
        ELSE IF cherryCount > 0 THEN
            IF cherryCount >= 3 THEN "drink"
            ELSE IF cherryCount >= 2 THEN (IF random < 30 THEN "drink" ELSE "proceed")
            ELSE "proceed"
        ELSE IF hasSmallYakuOf(finalSpinResults) THEN
            (IF random < 20 THEN "drink" ELSE "proceed")
        ELSE IF random < rate THEN "proceed"
        ELSE "end"

drinkCountOf(finalSpinResults) ==
    LET cherryCount == cherryCountOf(finalSpinResults, Len(finalSpinResults))
    IN  IF cherryCount > 0 THEN cherryCount ELSE 1

\* a continuation that counts the round twice
showBlackoutAndProceedTwice(g, count) ==
    [g EXCEPT !.showRushEffect = TRUE,
              !.showGameOver = FALSE,
              !.continueCount = count + 2,
              !.rushNumber = (count + 2) + 1]

showBlackoutAndProceed(g, count) ==
    [g EXCEPT !.showRushEffect = TRUE,
              !.showGameOver = FALSE,
              !.continueCount = count + 1,
              !.rushNumber = (count + 1) + 1]

showBlackoutAndEnd(g) ==
    [g EXCEPT !.showRushEffect = TRUE, !.showGameOver = TRUE]

proceedTimer(live) ==
    [kind |-> "proceed", results |-> <<>>, spinIndex |-> 0, count |-> 0,
     rate |-> 0, live |-> live]

\* a game over that reports the count of the first render
endTimerInitialCount(count, live) ==
    [kind |-> "end", results |-> <<>>, spinIndex |-> 0, count |-> 0,
     rate |-> 0, live |-> live]

endTimer(count, live) ==
    [kind |-> "end", results |-> <<>>, spinIndex |-> 0, count |-> count,
     rate |-> 0, live |-> live]

\* the cells checkRoundResult sets for the branch d; count is the
\* continueCount its closure captured
checkRoundResultState(g, d, finalSpinResults, count) ==
    IF d = "premium" THEN [g EXCEPT !.showPremiumModal = TRUE]
    ELSE IF d = "drink" THEN [g EXCEPT !.drinkCount = drinkCountOf(finalSpinResults),
                                      !.showDrinkModal = TRUE]
    ELSE IF d = "proceed" THEN showBlackoutAndProceed(g, count)
    ELSE showBlackoutAndEnd(g)

\* the timeout checkRoundResult schedules for the branch d
checkRoundResultTimers(q, d, count, live) ==
    IF d = "proceed" THEN Append(q, proceedTimer(live))
    ELSE IF d = "end" THEN Append(q, endTimer(count, live))
    ELSE q

\* a close of the drink modal that leaves the modal shown
handleDrinkModalCloseKeepsModal(g, count) == showBlackoutAndProceed(g, count)

handleDrinkModalClose(g, count) ==
    showBlackoutAndProceed([g EXCEPT !.showDrinkModal = FALSE], count)

handlePremiumModalClose(g, count) ==
    showBlackoutAndProceed([g EXCEPT !.showPremiumModal = FALSE], count)

\* Space: the last spinning reel of the captured isSpinning, or -1
lastSpinningIndex(v) ==
    IF \E i \in Reels : v.isSpinning[i + 1]
    THEN CHOOSE i \in Reels : /\ v.isSpinning[i + 1]
                              /\ \A j \in Reels : v.isSpinning[j + 1] => i >= j
    ELSE 0 - 1

\* Space: the first spinning reel of the captured isSpinning, or -1
firstSpinningIndex(v) ==
    IF \E i \in Reels : v.isSpinning[i + 1]
    THEN CHOOSE i \in Reels : /\ v.isSpinning[i + 1]
                              /\ \A j \in Reels : v.isSpinning[j + 1] => i <= j
    ELSE 0 - 1

(* ----------------------------- the machine ----------------------------- *)
Init ==
    /\ currentScreen = "home"
    /\ continueRate = 90
    /\ finalContinueCount = 0
    /\ selectedRate = 70
    /\ showRevivalEffect = FALSE
    /\ revivalTimers = <<>>
    /\ game = GameScreenState
    /\ view = GameScreenState
    /\ pendingRender = FALSE
    /\ timers = <<>>
    /\ phase = "selecting"
    /\ selectedOption = "null"
    /\ premiumTimer = NoTimer
    /\ lastOp = Op("init", 0)
    /\ stoppedReels = {}
    /\ completedSpins = 0
    /\ resolutions = 0
    /\ resolvedRecord = <<>>
    /\ outcome = "none"
    /\ continuedRounds = 0
    /\ gameEndCalls = 0

\* React re-renders GameScreen: the closures of the next event see the cells
Render == view' = game' /\ pendingRender' = FALSE

\* a component that unmounts leaves its timeouts pending: their setters no
\* longer reach a mounted component
Orphaned(q) == [k \in DOMAIN q |-> [q[k] EXCEPT !.live = FALSE]]

NewRoundHistory ==
    /\ stoppedReels' = {}
    /\ completedSpins' = 0
    /\ resolutions' = 0
    /\ resolvedRecord' = <<>>
    /\ outcome' = "none"

\* App renders another screen (setCurrentScreen): the screen shown unmounts
\* and the new one mounts with its initial state; GameScreen's mount effect
\* runs startNewRound.  tq and rq are the timeouts pending after the caller.
Navigate(to, tq, rq) ==
    /\ currentScreen' = to
    /\ IF to = currentScreen
       THEN /\ game' = game
            /\ timers' = tq
            /\ revivalTimers' = rq
            /\ UNCHANGED <<selectedRate, showRevivalEffect, premiumVars, roundHistory,
                           continuedRounds>>
       ELSE /\ game' = IF to = "game" THEN startNewRound(GameScreenState)
                       ELSE GameScreenState
            /\ timers' = IF currentScreen = "game" THEN Orphaned(tq) ELSE tq
            /\ revivalTimers' = IF currentScreen = "result" THEN Orphaned(rq) ELSE rq
            /\ selectedRate' = 70
            /\ showRevivalEffect' = FALSE
            /\ phase' = "selecting"
            /\ selectedOption' = "null"
            /\ premiumTimer' = IF premiumTimer.kind = "blackout" THEN NoTimer
                               ELSE [premiumTimer EXCEPT !.live = FALSE]
            /\ NewRoundHistory
            /\ continuedRounds' = IF to = "game" THEN 0 ELSE continuedRounds
    /\ Render

(* HomeScreen *)
SelectRate(rate) ==
    /\ currentScreen = "home"
    /\ selectedRate' = rate
    /\ lastOp' = Op("setSelectedRate", rate)
    /\ UNCHANGED <<currentScreen, continueRate, finalContinueCount, resultVars, game,
                   view, pendingRender, timers, premiumVars, roundHistory,
                   sessionHistory>>

\* a handleGameStart that forgets setContinueRate
handleGameStartKeepsRate ==
    /\ currentScreen = "home"
    /\ Navigate("game", timers, revivalTimers)
    /\ gameEndCalls' = 0
    /\ lastOp' = Op("handleGameStart", selectedRate)
    /\ UNCHANGED <<continueRate, finalContinueCount>>

\* handleStart -> App.handleGameStart(mode, rate)
handleGameStart ==
    /\ currentScreen = "home"
    /\ continueRate' = selectedRate
    /\ Navigate("game", timers, revivalTimers)
    /\ gameEndCalls' = 0
    /\ lastOp' = Op("handleGameStart", selectedRate)
    /\ UNCHANGED finalContinueCount

(* GameScreen *)
\* The view is up to date.  A revival timeout left over from a result screen
\* only calls setCurrentScreen('game') while the game screen is shown, which
\* changes nothing there; it was set before the screen was entered, so the
\* model lets it fire before the screen's own events.
Rendered == ~pendingRender /\ revivalTimers = <<>>

\* what one call of stopReel(reelIndex) does, on the closure's values
stopReel(reelIndex) ==
    IF stopReelIgnored(view, reelIndex)
    THEN UNCHANGED <<game, timers, stoppedReels, completedSpins>>
    ELSE \E random \in Draws :
            /\ game' = stopReelState(game, view, reelIndex, random)
            /\ timers' = stopReelTimers(timers, view, reelIndex, random, continueRate)
            /\ stoppedReels' = IF game.isSpinning[reelIndex + 1]
                               THEN stoppedReels \cup {reelIndex}
                               ELSE stoppedReels
            /\ completedSpins' = IF game.isSpinning[reelIndex + 1]
                                    /\ reelIndex \notin stoppedReels
                                    /\ stoppedReels \cup {reelIndex} = Reels
                                 THEN completedSpins + 1
                                 ELSE completedSpins

\* a STOP button, or any other caller of the rendered stopReel; an ignored
\* call changes nothing, and the history records it only when seen is set.
\* After the game screen has unmounted a caller still holds the stopReel of
\* its last render, the game-over one, where no reel spins (as in view then).
StopReelCall(reelIndex, seen) ==
    /\ currentScreen = "game" \/ (seen /\ currentScreen = "result")
    /\ Rendered
    /\ stopReel(reelIndex)
    /\ Render
    /\ lastOp' = IF ~stopReelIgnored(view, reelIndex) THEN Op("stopReel", 0)
                 ELSE IF seen THEN Op("ignored", 0)
                 ELSE lastOp
    /\ UNCHANGED <<appVars, resultVars, premiumVars, resolutions, resolvedRecord,
                   outcome, sessionHistory>>

StopReel(reelIndex) == StopReelCall(reelIndex, FALSE)

\* handleKeyPress for the Space key (it calls stopReel only for a spinning reel)
KeySpace ==
    /\ currentScreen = "game"
    /\ Rendered
    /\ IF firstSpinningIndex(view) # 0 - 1
       THEN stopReel(firstSpinningIndex(view))
       ELSE UNCHANGED <<game, timers, stoppedReels, completedSpins>>
    /\ Render
    /\ lastOp' = IF firstSpinningIndex(view) # 0 - 1
                 THEN Op("stopReel", 0)
                 ELSE lastOp
    /\ UNCHANGED <<appVars, resultVars, premiumVars, resolutions, resolvedRecord,
                   outcome, sessionHistory>>

\* the 300 ms timeout of a spin without cherry or small yaku, spin index < 2
NextSpinTimer ==
    /\ Rendered
    /\ timers # <<>>
    /\ Head(timers).kind = "next"
    /\ Head(timers).spinIndex < 2
    /\ timers' = Tail(timers)
    /\ IF Head(timers).live
       THEN /\ game' = startSpin(game, Head(timers).spinIndex + 1)
            /\ stoppedReels' = {}
       ELSE UNCHANGED <<game, stoppedReels>>
    /\ Render
    /\ lastOp' = Op("startSpin", Head(timers).spinIndex + 1)
    /\ UNCHANGED <<appVars, resultVars, premiumVars, completedSpins, resolutions,
                   resolvedRecord, outcome, sessionHistory>>

\* the 300 ms timeout that calls checkRoundResult: after a spin with a cherry
\* or a small yaku, or after the third spin
CheckTimer ==
    /\ Rendered
    /\ timers # <<>>
    /\ \/ Head(timers).kind = "check"
       \/ Head(timers).kind = "next" /\ Head(timers).spinIndex >= 2
    /\ \E d \in {decision(Head(timers).results, Head(timers).rate, random) :
                    random \in Percent} :
        LET t == Head(timers)
        IN  /\ d = "proceed" => t.count < MaxContinue
            /\ timers' = checkRoundResultTimers(Tail(timers), d, t.count, t.live)
            /\ IF t.live
               THEN /\ game' = checkRoundResultState(game, d, t.results, t.count)
                    /\ resolutions' = resolutions + 1
                    /\ resolvedRecord' = t.results
                    /\ outcome' = d
                    /\ continuedRounds' = IF d = "proceed" THEN continuedRounds + 1
                                          ELSE continuedRounds
                    /\ IF d = "premium" /\ ~game.showPremiumModal
                       THEN /\ phase' = "selecting"
                            /\ selectedOption' = "null"
                            /\ premiumTimer' = [kind |-> "blackout",
                                                count |-> game.continueCount,
                                                live |-> TRUE]
                       ELSE UNCHANGED premiumVars
               ELSE UNCHANGED <<game, resolutions, resolvedRecord, outcome,
                                continuedRounds, premiumVars>>
    /\ Render
    /\ lastOp' = Op("checkRoundResult", Len(Head(timers).results))
    /\ UNCHANGED <<appVars, resultVars, stoppedReels, completedSpins, gameEndCalls>>

\* the 2 s timeout of showBlackoutAndProceed
ProceedTimer ==
    /\ Rendered
    /\ timers # <<>>
    /\ Head(timers).kind = "proceed"
    /\ timers' = Tail(timers)
    /\ IF Head(timers).live
       THEN /\ game' = startNewRound([game EXCEPT !.showRushEffect = FALSE])
            /\ NewRoundHistory
       ELSE UNCHANGED <<game, roundHistory>>
    /\ Render
    /\ lastOp' = Op("startNewRound", 0)
    /\ UNCHANGED <<appVars, resultVars, premiumVars, sessionHistory>>

\* the 2 s timeout of showBlackoutAndEnd: onGameEnd -> App.handleGameEnd
EndTimer ==
    /\ Rendered
    /\ timers # <<>>
    /\ Head(timers).kind = "end"
    /\ finalContinueCount' = Head(timers).count
    /\ Navigate("result", Tail(timers), revivalTimers)
    /\ gameEndCalls' = IF Head(timers).live THEN gameEndCalls + 1 ELSE gameEndCalls
    /\ lastOp' = Op("onGameEnd", Head(timers).count)
    /\ UNCHANGED continueRate

\* the button of DrinkModal
DrinkModalClose ==
    /\ currentScreen = "game"
    /\ Rendered
    /\ view.showDrinkModal
    /\ view.continueCount < MaxContinue
    /\ game' = handleDrinkModalClose(game, view.continueCount)
    /\ timers' = Append(timers, proceedTimer(TRUE))
    /\ continuedRounds' = continuedRounds + 1
    /\ Render
    /\ lastOp' = Op("handleDrinkModalClose", 0)
    /\ UNCHANGED <<appVars, resultVars, premiumVars, roundHistory, gameEndCalls>>

(* PremiumModal: the timeouts of its effect; onClose is the
   handlePremiumModalClose of the render that mounted the modal *)
PremiumBlackout ==
    /\ Rendered
    /\ premiumTimer.kind = "blackout"
    /\ phase' = "blackout"
    /\ premiumTimer' = [premiumTimer EXCEPT !.kind = "result"]
    /\ lastOp' = Op("setPhase", 1)
    /\ UNCHANGED <<appVars, resultVars, game, view, pendingRender, timers,
                   selectedOption, roundHistory, sessionHistory>>

\* a result timeout that enters the result phase without choosing
PremiumResultNoOption ==
    /\ Rendered
    /\ premiumTimer.kind = "result"
    /\ IF premiumTimer.live
       THEN phase' = "result"
       ELSE UNCHANGED phase
    /\ premiumTimer' = [premiumTimer EXCEPT !.kind = "close"]
    /\ lastOp' = Op("setPhase", 2)
    /\ UNCHANGED <<appVars, resultVars, game, view, pendingRender, timers,
                   selectedOption, roundHistory, sessionHistory>>

PremiumResult ==
    /\ Rendered
    /\ premiumTimer.kind = "result"
    /\ \E result \in {IF random < 50 THEN "everyone" ELSE "self" : random \in Percent} :
        IF premiumTimer.live
        THEN /\ selectedOption' = result
             /\ phase' = "result"
        ELSE UNCHANGED <<selectedOption, phase>>
    /\ premiumTimer' = [premiumTimer EXCEPT !.kind = "close"]
    /\ lastOp' = Op("setPhase", 2)
    /\ UNCHANGED <<appVars, resultVars, game, view, pendingRender, timers,
                   roundHistory, sessionHistory>>

PremiumClose ==
    /\ Rendered
    /\ premiumTimer.kind = "close"
    /\ premiumTimer.count < MaxContinue
    /\ timers' = Append(timers, proceedTimer(premiumTimer.live))
    /\ premiumTimer' = NoTimer
    /\ IF premiumTimer.live
       THEN /\ game' = handlePremiumModalClose(game, premiumTimer.count)
            /\ phase' = "selecting"
            /\ selectedOption' = "null"
            /\ continuedRounds' = continuedRounds + 1
       ELSE UNCHANGED <<game, phase, selectedOption, continuedRounds>>
    /\ Render
    /\ lastOp' = Op("handlePremiumModalClose", 0)
    /\ UNCHANGED <<appVars, resultVars, roundHistory, gameEndCalls>>

(* ResultScreen *)
revivalTimer == [live |-> TRUE]

\* handleHomeClick; random is its Math.random() in percent
handleHomeClick ==
    /\ currentScreen = "result"
    /\ \E revival \in {random < 20 : random \in Percent} :
        IF revival
        THEN /\ Len(revivalTimers) < MaxRevivalTimers
             /\ showRevivalEffect' = TRUE
             /\ revivalTimers' = Append(revivalTimers, revivalTimer)
             /\ lastOp' = Op("handleHomeClick", 1)
             /\ UNCHANGED <<appVars, game, view, pendingRender, timers, premiumVars,
                            roundHistory, sessionHistory>>
        ELSE /\ Navigate("home", timers, revivalTimers)
             /\ lastOp' = Op("handleHomeClick", 0)
             /\ UNCHANGED <<continueRate, finalContinueCount, gameEndCalls>>

\* a handleRevival that puts the rate back to its initial value
RevivalTimerResetsRate ==
    /\ revivalTimers # <<>>
    /\ IF currentScreen = "game"
       THEN /\ revivalTimers' = Tail(revivalTimers)
            /\ UNCHANGED <<currentScreen, selectedRate, showRevivalEffect, game, view,
                           pendingRender, timers, premiumVars, roundHistory,
                           sessionHistory>>
       ELSE /\ Navigate("game", timers, Tail(revivalTimers))
            /\ gameEndCalls' = 0
    /\ lastOp' = Op("handleRevival", 0)
    /\ continueRate' = 90
    /\ UNCHANGED finalContinueCount

\* the 2 s timeout of handleHomeClick: onRevival -> App.handleRevival
RevivalTimer ==
    /\ revivalTimers # <<>>
    /\ IF currentScreen = "game"
       THEN /\ revivalTimers' = Tail(revivalTimers)
            /\ UNCHANGED <<currentScreen, selectedRate, showRevivalEffect, game, view,
                           pendingRender, timers, premiumVars, roundHistory,
                           sessionHistory>>
       ELSE /\ Navigate("game", timers, Tail(revivalTimers))
            /\ gameEndCalls' = 0
    /\ lastOp' = Op("handleRevival", 0)
    /\ UNCHANGED <<continueRate, finalContinueCount>>

Next ==
    \/ \E rate \in RateButtons : SelectRate(rate)
    \/ handleGameStart
    \/ \E reelIndex \in Reels : StopReel(reelIndex)
    \/ KeySpace
    \/ NextSpinTimer
    \/ CheckTimer
    \/ ProceedTimer
    \/ EndTimer
    \/ DrinkModalClose
    \/ PremiumBlackout
    \/ PremiumResult
    \/ PremiumClose
    \/ handleHomeClick
    \/ RevivalTimer

Spec == Init /\ [][Next]_vars

\* the same machine, with the ignored calls recorded in the history
NextCalls ==
    \/ \E rate \in RateButtons : SelectRate(rate)
    \/ handleGameStart
    \/ \E reelIndex \in Reels : StopReelCall(reelIndex, TRUE)
    \/ KeySpace
    \/ NextSpinTimer
    \/ CheckTimer
    \/ ProceedTimer
    \/ EndTimer
    \/ DrinkModalClose
    \/ PremiumBlackout
    \/ PremiumResult
    \/ PremiumClose
    \/ handleHomeClick
    \/ RevivalTimer

SpecCalls == Init /\ [][NextCalls]_vars

\* stopReel called again on the closure of the same render: the caller holds
\* the rendered stopReel and calls it before React has re-rendered
StopReelDeferred(reelIndex) ==
    /\ currentScreen = "game"
    /\ revivalTimers = <<>>
    /\ Len(timers) <= MaxTimers
    /\ stopReel(reelIndex)
    /\ view' = view
    /\ pendingRender' = TRUE
    /\ lastOp' = IF ~stopReelIgnored(view, reelIndex) THEN Op("stopReel", 0)
                 ELSE Op("ignored", 0)
    /\ UNCHANGED <<appVars, resultVars, premiumVars, resolutions, resolvedRecord,
                   outcome, sessionHistory>>

Refresh ==
    /\ pendingRender
    /\ view' = game
    /\ pendingRender' = FALSE
    /\ UNCHANGED <<appVars, resultVars, game, timers, premiumVars, lastOp,
                   roundHistory, sessionHistory>>

\* the first spin of a session, with such calls
NextDeferred ==
    \/ handleGameStart
    \/ \E reelIndex \in Reels : StopReelCall(reelIndex, TRUE)
    \/ \E reelIndex \in Reels : StopReelDeferred(reelIndex)
    \/ Refresh

SpecDeferred == Init /\ [][NextDeferred]_vars

\* the last STOP of a round pressed twice on the closure of one render: both
\* calls pass the guard, write the same cells and schedule a timeout each
StopReelTwice(reelIndex) ==
    /\ currentScreen = "game"
    /\ Rendered
    /\ Len(timers) < MaxTimers
    /\ view.remainingStops = 1
    /\ ~stopReelIgnored(view, reelIndex)
    /\ \E first \in Draws : \E random \in Draws :
          /\ game' = stopReelState(stopReelState(game, view, reelIndex, first),
                                   view, reelIndex, random)
          /\ timers' = stopReelTimers(stopReelTimers(timers, view, reelIndex, first,
                                                     continueRate),
                                      view, reelIndex, random, continueRate)
    /\ stoppedReels' = stoppedReels \cup {reelIndex}
    /\ completedSpins' = IF stoppedReels \cup {reelIndex} = Reels
                         THEN completedSpins + 1
                         ELSE completedSpins
    /\ Render
    /\ lastOp' = Op("stopReel", 2)
    /\ UNCHANGED <<appVars, resultVars, premiumVars, resolutions, resolvedRecord,
                   outcome, sessionHistory>>

\* the first round of a session up to the end of the game and what follows
\* on the result and home screens, with such a double call
NextTeardown ==
    \/ handleGameStart
    \/ \E reelIndex \in Reels : StopReelCall(reelIndex, TRUE)
    \/ \E reelIndex \in Reels : StopReelTwice(reelIndex)
    \/ NextSpinTimer
    \/ CheckTimer
    \/ EndTimer
    \/ handleHomeClick
    \/ RevivalTimer

SpecTeardown == Init /\ [][NextTeardown]_vars

\* every value of Math.random() * totalWeight, in quarters, up to MaxDraw
AllDraws == 0..MaxDraw

\* the first STOP of a session, its draw taken from all the values and kept
\* in the history
StopReelDrawn(reelIndex) ==
    /\ currentScreen = "game"
    /\ Rendered
    /\ stoppedReels = {}
    /\ ~stopReelIgnored(view, reelIndex)
    /\ \E random \in AllDraws :
          /\ game' = stopReelState(game, view, reelIndex, random)
          /\ timers' = stopReelTimers(timers, view, reelIndex, random, continueRate)
          /\ lastOp' = Op("generateWeightedSymbol", random)
    /\ stoppedReels' = {reelIndex}
    /\ Render
    /\ UNCHANGED <<appVars, resultVars, premiumVars, completedSpins, resolutions,
                   resolvedRecord, outcome, sessionHistory>>

\* the first spin of a session, its first reel stopped on any draw
NextGenerator ==
    \/ handleGameStart
    \/ \E reelIndex \in Reels : StopReelDrawn(reelIndex)
    \/ \E reelIndex \in Reels : StopReelCall(reelIndex, TRUE)

SpecGenerator == Init /\ [][NextGenerator]_vars

(* the classifiers of utils/gameLogic and of checkRoundResult, applied to
   records that need not come from the sequencer *)
\* the longest list of symbols a classifier is applied to
MaxLen == 4

\* a round has at most three spins
MaxSpins == 3

SymbolLists == UNION {[1..n -> {SYMBOLS[k] : k \in 1..Len(SYMBOLS)}] : n \in 0..MaxLen}

\* the spins the reels give on the draws of Draws, and their records
DrawnSpins == [1..3 -> {generateWeightedSymbol(random) : random \in Draws}]

DrawnRecords == UNION {[1..n -> DrawnSpins] : n \in 0..MaxSpins}

Call(name, arg, result) == [op |-> name, arg |-> arg, result |-> result]

\* resolvedRecord holds the record the classifiers are applied to
InitClassifier ==
    /\ currentScreen = "home"
    /\ continueRate = 90
    /\ finalContinueCount = 0
    /\ selectedRate = 70
    /\ showRevivalEffect = FALSE
    /\ revivalTimers = <<>>
    /\ game = GameScreenState
    /\ view = GameScreenState
    /\ pendingRender = FALSE
    /\ timers = <<>>
    /\ phase = "selecting"
    /\ selectedOption = "null"
    /\ premiumTimer = NoTimer
    /\ lastOp = Op("init", 0)
    /\ stoppedReels = {}
    /\ completedSpins = 0
    /\ resolutions = 0
    /\ resolvedRecord \in DrawnRecords \cup {<<symbols>> : symbols \in SymbolLists}
    /\ outcome = "none"
    /\ continuedRounds = 0
    /\ gameEndCalls = 0

classifierFrame ==
    UNCHANGED <<appVars, resultVars, game, view, pendingRender, timers, premiumVars,
                roundHistory, sessionHistory>>

CallCheckSmallYakuMatch ==
    /\ \E n \in DOMAIN resolvedRecord :
          lastOp' = Call("checkSmallYakuMatch", resolvedRecord[n],
                         checkSmallYakuMatch(resolvedRecord[n]))
    /\ classifierFrame

CallIsPremiumFlag ==
    /\ \E n \in DOMAIN resolvedRecord :
          lastOp' = Call("isPremiumFlag", resolvedRecord[n],
                         isPremiumFlag(resolvedRecord[n]))
    /\ classifierFrame

CallCountCherries ==
    /\ lastOp' = Call("countCherries", resolvedRecord, countCherries(resolvedRecord))
    /\ classifierFrame

CallGeneratePremiumFlag ==
    /\ lastOp' = Call("generatePremiumFlag", <<>>, generatePremiumFlag)
    /\ classifierFrame

\* the loop of checkRoundResult over the record
CallCheckRoundResult ==
    /\ lastOp' = Call("checkRoundResult", resolvedRecord, classify(resolvedRecord))
    /\ classifierFrame

NextClassifier ==
    \/ CallCheckSmallYakuMatch
    \/ CallIsPremiumFlag
    \/ CallCountCherries
    \/ CallGeneratePremiumFlag
    \/ CallCheckRoundResult

SpecClassifier == InitClassifier /\ [][NextClassifier]_vars

(* one session of the game screen, from the start button to the result
   screen; under Fairness the player goes on playing and the browser runs
   the timeouts *)
\* the player stops a spinning reel, by its button or by the Space key
PlayerStops == KeySpace \/ \E reelIndex \in Reels : StopReel(reelIndex)

\* a pending timeout of the game screen or of the premium modal runs
TimerFires ==
    \/ NextSpinTimer
    \/ CheckTimer
    \/ ProceedTimer
    \/ EndTimer
    \/ PremiumBlackout
    \/ PremiumResult
    \/ PremiumClose

NextSession ==
    \/ handleGameStart
    \/ PlayerStops
    \/ DrinkModalClose
    \/ TimerFires

SpecSession == Init /\ [][NextSession]_vars

Fairness ==
    /\ WF_vars(PlayerStops)
    /\ WF_vars(DrinkModalClose)
    /\ WF_vars(TimerFires)

SpecLive == Init /\ [][NextSession]_vars /\ Fairness

(* one session of the game screen with the presses of the Space key kept in
   the history, also those that find no reel spinning *)
KeyPressSeen ==
    /\ currentScreen = "game"
    /\ Rendered
    /\ IF firstSpinningIndex(view) # 0 - 1
       THEN stopReel(firstSpinningIndex(view))
       ELSE UNCHANGED <<game, timers, stoppedReels, completedSpins>>
    /\ Render
    /\ lastOp' = Op("handleKeyPress", firstSpinningIndex(view))
    /\ UNCHANGED <<appVars, resultVars, premiumVars, resolutions, resolvedRecord,
                   outcome, sessionHistory>>

NextKeys ==
    \/ handleGameStart
    \/ \E reelIndex \in Reels : StopReel(reelIndex)
    \/ KeyPressSeen
    \/ DrinkModalClose
    \/ TimerFires

SpecKeys == Init /\ [][NextKeys]_vars

(* the generators of utils/gameLogic that GameScreen does not call, applied
   to the arguments and the draw that Init writes into lastOp *)
InitLogic ==
    /\ currentScreen = "home"
    /\ continueRate = 90
    /\ finalContinueCount = 0
    /\ selectedRate = 70
    /\ showRevivalEffect = FALSE
    /\ revivalTimers = <<>>
    /\ game = GameScreenState
    /\ view = GameScreenState
    /\ pendingRender = FALSE
    /\ timers = <<>>
    /\ phase = "selecting"
    /\ selectedOption = "null"
    /\ premiumTimer = NoTimer
    /\ lastOp \in {Op("generateSpinResult", <<shouldIncludeCherry, shouldMakeSmallYaku, random>>) :
                      shouldIncludeCherry \in BOOLEAN, shouldMakeSmallYaku \in BOOLEAN,
                      random \in Percent}
                 \cup {Op("checkPremiumFlag", <<random>>) : random \in 0..(PremiumScale - 1)}
    /\ stoppedReels = {}
    /\ completedSpins = 0
    /\ resolutions = 0
    /\ resolvedRecord = <<>>
    /\ outcome = "none"
    /\ continuedRounds = 0
    /\ gameEndCalls = 0

\* the call written in lastOp has been made
Returned == "result" \in DOMAIN lastOp

CallGenerateSpinResult ==
    /\ ~Returned
    /\ lastOp.op = "generateSpinResult"
    /\ \E result \in generateSpinResult(lastOp.arg[1], lastOp.arg[2], lastOp.arg[3]) :
          lastOp' = Call("generateSpinResult", lastOp.arg, result)
    /\ classifierFrame
    /\ UNCHANGED resolvedRecord

CallCheckPremiumFlag ==
    /\ ~Returned
    /\ lastOp.op = "checkPremiumFlag"
    /\ lastOp' = Call("checkPremiumFlag", lastOp.arg, checkPremiumFlag(lastOp.arg[1]))
    /\ classifierFrame
    /\ UNCHANGED resolvedRecord

NextLogic == CallGenerateSpinResult \/ CallCheckPremiumFlag

SpecLogic == InitLogic /\ [][NextLogic]_vars

(* ------------------------------ properties ----------------------------- *)
\* the spec's own reading of a record, written without the code's helpers
IsSymbol(x) == x \in {"cherry", "lemon", "grape", "diamond", "bell", "star"}

Cherries(spin) == Cardinality({k \in DOMAIN spin : spin[k] = "cherry"})

SmallYaku(spin) ==
    /\ Len(spin) = 3
    /\ \E x \in {"lemon", "grape", "diamond", "bell"} : spin = <<x, x, x>>

Premium(spin) == spin = <<"star", "star", "star">>

Qualifies(spin) == Cherries(spin) > 0 \/ SmallYaku(spin)

AnyPremium(record) == \E n \in DOMAIN record : Premium(record[n])

AnyQualifies(record) == \E n \in DOMAIN record : Qualifies(record[n])

NoReelSpinning == \A i \in Reels : ~game.isSpinning[i + 1]

OnGame == currentScreen = "game"

TypeOK ==
    /\ currentScreen \in {"home", "game", "result"}
    /\ continueRate \in ContinueRates
    /\ game.continueCount \in 0..MaxContinue
    /\ game.remainingStops \in 0..9
    /\ game.currentSpinIndex \in 0..2
    /\ Len(timers) <= 1
    /\ view = game
    /\ ~pendingRender
    /\ \A k \in DOMAIN timers : timers[k].live
    /\ (~OnGame => game = GameScreenState /\ timers = <<>> /\ premiumTimer = NoTimer)

(* C1: every round is resolved exactly once - checkRoundResult is never
   called twice in a round, a round is never followed by a new round or by
   the end of the game without having been resolved - and the record handed
   to checkRoundResult holds 1, 2 or 3 spin results. *)
C1_ResolvedOnce ==
    [][/\ resolutions' <= 1
       /\ (resolutions' = 1 /\ resolutions = 0 => Len(resolvedRecord') \in 1..3)
       /\ (OnGame /\ (ProceedTimer \/ EndTimer) => resolutions = 1)]_vars

C1_Witness ==
    /\ lastOp.op = "startNewRound"
    /\ game.continueCount = 1
    /\ resolutions = 0

LastSpin == game.allSpinResults[Len(game.allSpinResults)]

PendingCheck(record) ==
    /\ Len(timers) = 1
    /\ timers[1].kind = "check"
    /\ timers[1].results = record
    /\ timers[1].live

(* C2: early-exit law.  No recorded spin but the last holds a cherry or is a
   small yaku; once the last recorded spin does, no reel spins again in the
   round, the record is not extended, and the round is resolved with exactly
   that record: the resolution is pending with it, or has happened with it. *)
C2_EarlyExit ==
    OnGame =>
        /\ \A n \in 1..(Len(game.allSpinResults) - 1) : ~Qualifies(game.allSpinResults[n])
        /\ (game.allSpinResults # <<>> /\ Qualifies(LastSpin)) =>
              /\ NoReelSpinning
              /\ completedSpins = Len(game.allSpinResults)
              /\ IF resolutions = 0 THEN PendingCheck(game.allSpinResults)
                 ELSE resolutions = 1 /\ resolvedRecord = game.allSpinResults

C2_Witness ==
    /\ OnGame
    /\ resolutions = 1
    /\ Len(resolvedRecord) = 2
    /\ SmallYaku(resolvedRecord[2])
    /\ lastOp.op = "checkRoundResult"

\* the pause after a completed spin without cherry or small yaku
AfterPlainSpin ==
    /\ OnGame
    /\ NoReelSpinning
    /\ resolutions = 0
    /\ game.allSpinResults # <<>>
    /\ Len(game.allSpinResults) = game.currentSpinIndex + 1
    /\ ~Qualifies(LastSpin)

(* C3: after a completed spin without cherry or small yaku, the next change
   of the game screen's state is, for spin index 0 or 1, the start of spin
   index + 1 with the three reels reset to the spinning placeholder and
   spinning, the round unresolved and its record kept; for spin index 2 it
   is the resolution of the round with the three recorded spins.  The spin
   index never exceeds 2 and the record never holds a fourth spin. *)
C3_NextSpinOrResolve ==
    [][/\ (AfterPlainSpin /\ game' # game) =>
              IF game.currentSpinIndex < 2
              THEN /\ game'.currentSpinIndex = game.currentSpinIndex + 1
                   /\ game'.isSpinning = <<TRUE, TRUE, TRUE>>
                   /\ game'.reels = <<"q", "q", "q">>
                   /\ game'.allSpinResults = game.allSpinResults
                   /\ resolutions' = 0
                   /\ currentScreen' = "game"
              ELSE /\ resolutions' = 1
                   /\ resolvedRecord' = game.allSpinResults
                   /\ Len(resolvedRecord') = 3
                   /\ game'.isSpinning = <<FALSE, FALSE, FALSE>>
                   /\ game'.currentSpinIndex = 2
       /\ game'.currentSpinIndex \in 0..2
       /\ Len(game'.allSpinResults) <= 3]_vars

C3_Witness ==
    /\ OnGame
    /\ resolutions = 1
    /\ Len(resolvedRecord) = 3
    /\ ~AnyQualifies(resolvedRecord)
    /\ game.currentSpinIndex = 2

\* the fields of the game screen a stopReel call could touch
SequencerFields(g) ==
    <<g.reels, g.isSpinning, g.remainingStops, g.currentSpinIndex,
      g.allSpinResults, g.continueCount>>

(* C4: a stopReel call made while no reel spins - in the pause after a spin,
   under a modal or an overlay, after the game is over - changes none of
   reels, isSpinning, remainingStops, currentSpinIndex, allSpinResults and
   continueCount, schedules no timeout and moves no pending one. *)
C4_IdleStopReelIsNoOp ==
    [][\A reelIndex \in Reels :
          (NoReelSpinning /\ StopReelCall(reelIndex, TRUE)) =>
              /\ SequencerFields(game') = SequencerFields(game)
              /\ timers' = timers
              /\ premiumTimer' = premiumTimer
              /\ currentScreen' = currentScreen
              /\ resolutions' = resolutions]_vars

C4_Witness ==
    /\ lastOp.op = "ignored"
    /\ OnGame
    /\ game.showDrinkModal
    /\ NoReelSpinning
    /\ Len(game.allSpinResults) = 1

(* C5: within the first spin of a session, a reel that a stopReel call has
   stopped keeps its symbol and stays stopped under every later stopReel
   call, whether or not the view has refreshed in between, and
   remainingStops counts the reels stopped. *)
C5_ReelResolvedOnce ==
    [][\A i \in Reels :
          (OnGame /\ OnGame' /\ i \in stoppedReels) =>
              /\ game'.reels[i + 1] = game.reels[i + 1]
              /\ ~game'.isSpinning[i + 1]
              /\ game'.remainingStops = 9 - Cardinality(stoppedReels')]_vars

(* C6: whichever stopReel calls are made - on a stopped reel, with no spin
   active, with a repeated index - the record of the round holds as many
   spin results as the round has spins whose three reels were each stopped
   while spinning. *)
C6_RecordLength ==
    OnGame => Len(game.allSpinResults) = completedSpins

C6_Witness ==
    /\ OnGame
    /\ lastOp.op = "ignored"
    /\ completedSpins = 2
    /\ Cardinality(stoppedReels) = 3
    /\ resolutions = 0

RecordCherries(record) == \E n \in DOMAIN record : Cherries(record[n]) > 0

Plain(record) == ~AnyPremium(record) /\ ~AnyQualifies(record)

NoEndPending == \A k \in DOMAIN timers : timers[k].kind # "end"

(* C7: premium priority.  A round resolved on a record that holds a spin of
   three stars has the premium outcome, whatever else the record holds: no
   drink modal, no game over, no end of the game pending.  While the premium
   modal is shown its timeout is pending and the count is untouched; once it
   has closed the round has been counted as continued and the new round is
   pending. *)
C7_PremiumPriority ==
    (OnGame /\ resolutions = 1 /\ AnyPremium(resolvedRecord)) =>
        /\ outcome = "premium"
        /\ ~game.showDrinkModal
        /\ ~game.showGameOver
        /\ NoEndPending
        /\ game.continueCount = continuedRounds
        /\ IF game.showPremiumModal
           THEN /\ premiumTimer.kind \in {"blackout", "result", "close"}
                /\ premiumTimer.live
                /\ premiumTimer.count = game.continueCount
                /\ timers = <<>>
           ELSE /\ lastOp.op = "handlePremiumModalClose"
                /\ continuedRounds >= 1
                /\ game.showRushEffect
                /\ timers = <<proceedTimer(TRUE)>>

C7_Witness ==
    /\ OnGame
    /\ outcome = "premium"
    /\ RecordCherries(resolvedRecord)
    /\ ~game.showPremiumModal
    /\ game.continueCount = 1

(* C8: the game over is reached only by a round whose three recorded spins
   hold no premium flag, no cherry and no small yaku; and a resolution
   pending on such a record continues exactly for the draws below the
   continuation rate of the session and ends the game for the others, both
   kinds of draw existing. *)
C8_OnlyPlainRoundEnds ==
    OnGame =>
        /\ (outcome = "end" \/ game.showGameOver \/ ~NoEndPending) =>
              /\ resolutions = 1
              /\ outcome = "end"
              /\ Len(resolvedRecord) = 3
              /\ Plain(resolvedRecord)
        /\ \A k \in DOMAIN timers :
              (timers[k].kind \in {"check", "next"} /\ Len(timers[k].results) = 3
                  /\ Plain(timers[k].results)) =>
                  /\ timers[k].rate = continueRate
                  /\ \A random \in Percent :
                        decision(timers[k].results, timers[k].rate, random) =
                            IF random < continueRate THEN "proceed" ELSE "end"
                  /\ \E random \in Percent : random < continueRate
                  /\ \E random \in Percent : ~(random < continueRate)

C8_Witness ==
    /\ OnGame
    /\ outcome = "end"
    /\ game.showGameOver
    /\ lastOp.op = "checkRoundResult"
    /\ continuedRounds = 1

\* a step that resolves a round without ending the game: checkRoundResult
\* deciding to proceed, the drink modal closing, the premium modal closing
Continues ==
    \/ resolutions' = resolutions + 1 /\ outcome' = "proceed"
    \/ game.showDrinkModal /\ ~game'.showDrinkModal
    \/ game.showPremiumModal /\ ~game'.showPremiumModal

FreshRound(g) ==
    /\ g.allSpinResults = <<>>
    /\ g.currentSpinIndex = 0
    /\ g.remainingStops = 9
    /\ g.isSpinning = <<TRUE, TRUE, TRUE>>
    /\ g.reels = <<"q", "q", "q">>

(* C9: a step that resolves a round without ending the game - the plain
   continuation, the close of the drink modal, the close of the premium
   modal - raises continueCount by exactly one and leaves the start of a new
   round pending; that timeout starts a fresh round and keeps the count; and
   continueCount changes in no other step of a mounted game screen. *)
C9_CountsEachContinuation ==
    [][/\ (OnGame /\ Continues) =>
              /\ game'.continueCount = game.continueCount + 1
              /\ timers' = <<proceedTimer(TRUE)>>
              /\ currentScreen' = "game"
       /\ (OnGame /\ ProceedTimer) =>
              /\ FreshRound(game')
              /\ game'.continueCount = game.continueCount
              /\ timers' = <<>>
       /\ (OnGame /\ currentScreen' = "game"
              /\ game'.continueCount # game.continueCount) => Continues]_vars

C9_Witness ==
    /\ OnGame
    /\ lastOp.op = "handleDrinkModalClose"
    /\ game.continueCount = 1
    /\ timers = <<proceedTimer(TRUE)>>

(* C10: once a round has resolved to the end of the game no reel spins and
   the only change of the game screen is its end: onGameEnd is called, once,
   with the number of rounds continued since the screen was entered, and the
   result screen is shown with that number. *)
C10_TerminateEndsTheGame ==
    [][/\ (OnGame /\ outcome = "end") =>
              /\ NoReelSpinning
              /\ gameEndCalls = 0
              /\ (game' # game \/ timers' # timers) =>
                    /\ EndTimer
                    /\ currentScreen' = "result"
                    /\ gameEndCalls' = 1
                    /\ lastOp' = Op("onGameEnd", continuedRounds)
       /\ gameEndCalls' <= 1
       /\ (gameEndCalls' = gameEndCalls + 1) => (OnGame /\ outcome = "end")
       /\ (currentScreen' = "result") =>
              /\ gameEndCalls' = 1
              /\ finalContinueCount' = continuedRounds']_vars

C10_Witness ==
    /\ currentScreen = "result"
    /\ lastOp.op = "onGameEnd"
    /\ finalContinueCount = 1
    /\ gameEndCalls = 1

\* the cherries of a record, counted spin by spin
RECURSIVE RecordCherryCount(_)
RecordCherryCount(record) ==
    IF record = <<>> THEN 0
    ELSE Cherries(Head(record)) + RecordCherryCount(Tail(record))

RecordSmallYaku(record) == \E n \in DOMAIN record : SmallYaku(record[n])

\* the round has been resolved to a continuation that is already counted
ContinuationPending ==
    /\ timers = <<proceedTimer(TRUE)>>
    /\ game.showRushEffect
    /\ continuedRounds >= 1
    /\ game.continueCount = continuedRounds

(* C11: a round resolved on a record without premium flag and with three or
   more cherries always shows the drink modal, with drinkCount the number of
   cherries; the game is not over and no end is pending; the round has not
   continued while the modal is shown, and it is counted as continued, the
   new round pending, once the modal has been closed. *)
C11_ThreeCherriesReveal ==
    (OnGame /\ resolutions = 1 /\ ~AnyPremium(resolvedRecord)
        /\ RecordCherryCount(resolvedRecord) >= 3) =>
        /\ outcome = "drink"
        /\ game.drinkCount = RecordCherryCount(resolvedRecord)
        /\ ~game.showGameOver
        /\ ~game.showPremiumModal
        /\ NoEndPending
        /\ \A rate \in ContinueRates : \A random \in Percent :
              decision(resolvedRecord, rate, random) = "drink"
        /\ IF game.showDrinkModal
           THEN timers = <<>> /\ ~game.showRushEffect
           ELSE lastOp.op = "handleDrinkModalClose" /\ ContinuationPending

C11_Witness ==
    /\ OnGame
    /\ outcome = "drink"
    /\ RecordCherryCount(resolvedRecord) = 3
    /\ game.drinkCount = 3
    /\ ~game.showDrinkModal
    /\ lastOp.op = "handleDrinkModalClose"

(* C12: a round resolved on a record without premium flag and with exactly
   one cherry continues at once, for every continuation rate and every
   draw: no drink modal, no game over, no end pending, the round counted as
   continued and the new round pending. *)
C12_OneCherryContinues ==
    (OnGame /\ resolutions = 1 /\ ~AnyPremium(resolvedRecord)
        /\ RecordCherryCount(resolvedRecord) = 1) =>
        /\ outcome = "proceed"
        /\ ~game.showDrinkModal
        /\ ~game.showGameOver
        /\ ~game.showPremiumModal
        /\ NoEndPending
        /\ ContinuationPending
        /\ \A rate \in ContinueRates : \A random \in Percent :
              decision(resolvedRecord, rate, random) = "proceed"

C12_Witness ==
    /\ OnGame
    /\ outcome = "proceed"
    /\ Len(resolvedRecord) = 3
    /\ RecordCherryCount(resolvedRecord) = 1
    /\ lastOp.op = "checkRoundResult"

\* the records whose round continues with or without the reveal
RevealDrawn(record) ==
    /\ ~AnyPremium(record)
    /\ \/ RecordCherryCount(record) = 2
       \/ RecordCherryCount(record) = 0 /\ RecordSmallYaku(record)

RevealBelow(record) == IF RecordCherryCount(record) = 2 THEN 30 ELSE 20

(* C13: a round resolved on a record without premium flag and with exactly
   two cherries, or with no cherry and a small yaku, either continues at
   once or shows the drink modal and continues when it is closed; for every
   continuation rate the draw decides only that - the modal for a draw
   below 30 (two cherries) or 20 (small yaku) percent, the plain
   continuation otherwise, both kinds of draw existing - and the game is
   never over. *)
C13_RevealIsDrawn ==
    (OnGame /\ resolutions = 1 /\ RevealDrawn(resolvedRecord)) =>
        /\ outcome \in {"proceed", "drink"}
        /\ ~game.showGameOver
        /\ ~game.showPremiumModal
        /\ NoEndPending
        /\ \A rate \in ContinueRates :
              /\ \A random \in Percent :
                    decision(resolvedRecord, rate, random) =
                        IF random < RevealBelow(resolvedRecord) THEN "drink" ELSE "proceed"
              /\ {decision(resolvedRecord, rate, random) : random \in Percent}
                    = {"proceed", "drink"}
        /\ IF game.showDrinkModal
           THEN outcome = "drink" /\ timers = <<>>
           ELSE ContinuationPending
        /\ outcome = "drink" =>
              game.drinkCount = IF RecordCherryCount(resolvedRecord) = 2 THEN 2 ELSE 1

C13_Witness ==
    /\ OnGame
    /\ outcome = "drink"
    /\ RecordCherryCount(resolvedRecord) = 2
    /\ game.showDrinkModal
    /\ game.drinkCount = 2

\* a timeout set by a game screen, or by a premium modal, that has unmounted
OrphanAtHead == timers # <<>> /\ ~Head(timers).live

PremiumOrphan == premiumTimer.kind # "none" /\ ~premiumTimer.live

(* C14: the timeouts of a game screen that has been torn down are
   cancelled: no timeout set by an unmounted game screen or premium modal
   fires - no startSpin, checkRoundResult, startNewRound, onGameEnd or
   onClose is called by one. *)
C14_TeardownCancels ==
    [][/\ OrphanAtHead => ~(NextSpinTimer \/ CheckTimer \/ ProceedTimer \/ EndTimer)
       /\ PremiumOrphan => ~(PremiumBlackout \/ PremiumResult \/ PremiumClose)]_vars

(* C15: the revival check is a one-shot.  Once handleHomeClick has drawn the
   revival on a result screen, handleHomeClick is not evaluated again on
   that screen; and the revival timeout calls onRevival only on the result
   screen that set it, so that a showing of the result screen ends either
   with the return to the home screen or with the revival, never both. *)
C15_RevivalOneShot ==
    [][/\ (currentScreen = "result" /\ showRevivalEffect) => ~handleHomeClick
       /\ RevivalTimer => (currentScreen = "result" /\ Head(revivalTimers).live)]_vars

\* the rates the pending timeouts of the mounted game screen resolve with
RatesInUse(q) ==
    {q[k].rate : k \in {n \in DOMAIN q : q[n].live /\ q[n].kind \in {"check", "next"}}}

(* C16: whenever the game screen is shown its continueRate is one of the six
   rates and is the rate every pending resolution of the screen uses; the
   start of a session sets it to the rate selected on the home screen, and
   no other step changes it: not a round, not the end of the game, not a
   revival. *)
C16_RateFixedForSession ==
    [][/\ (currentScreen' = "game") =>
              /\ continueRate' \in {29, 50, 70, 81, 90, 99}
              /\ RatesInUse(timers') \subseteq {continueRate'}
       /\ (currentScreen = "home" /\ lastOp'.op = "handleGameStart") =>
              /\ currentScreen' = "game"
              /\ continueRate' = selectedRate
       /\ (continueRate' # continueRate) =>
              /\ currentScreen = "home"
              /\ lastOp'.op = "handleGameStart"]_vars

C16_Witness ==
    /\ OnGame
    /\ lastOp.op = "handleRevival"
    /\ continueRate = 70
    /\ finalContinueCount = 1
    /\ game.isSpinning = <<TRUE, TRUE, TRUE>>

\* a step in which startNewRound runs: the mount of the game screen, or the
\* timeout that follows a continued round
RoundStarts ==
    \/ currentScreen # "game" /\ currentScreen' = "game"
    \/ OnGame /\ currentScreen' = "game" /\ resolutions = 1 /\ resolutions' = 0

(* C17: a step in which startNewRound runs leaves an empty record, spin
   index 0, remainingStops 9 and the three reels on the spinning placeholder
   and spinning; any other step of the game screen that changes the record
   appends one spin result of three symbols, the symbols on the reels, at
   its end. *)
C17_CleanRoundAndAppendOnly ==
    [][/\ RoundStarts => FreshRound(game')
       /\ (OnGame /\ currentScreen' = "game" /\ ~RoundStarts
              /\ game'.allSpinResults # game.allSpinResults) =>
              /\ game'.allSpinResults = Append(game.allSpinResults, game'.reels)
              /\ \A k \in 1..3 : IsSymbol(game'.reels[k])]_vars

C17_Witness ==
    /\ OnGame
    /\ continuedRounds = 1
    /\ Len(game.allSpinResults) = 2
    /\ game.remainingStops = 3
    /\ lastOp.op = "stopReel"

\* the symbol on the one reel stopped by a recorded draw
DrawnSymbol == game.reels[(CHOOSE i \in stoppedReels : TRUE) + 1]

DrawRecorded == lastOp.op = "generateWeightedSymbol" /\ Cardinality(stoppedReels) = 1

(* C18: for every draw, those the loop over the weight table selects
   nothing for included, the reel stopped by the draw holds one of the six
   symbols; and no stopped reel of the game screen holds null or the
   spinning placeholder. *)
C18_AlwaysASymbol ==
    /\ DrawRecorded => IsSymbol(DrawnSymbol)
    /\ DrawRecorded => DrawnSymbol = generateWeightedSymbol(lastOp.arg)
    /\ OnGame => \A i \in Reels : ~game.isSpinning[i + 1] => IsSymbol(game.reels[i + 1])

C18_Witness ==
    /\ DrawRecorded
    /\ lastOp.arg > 402
    /\ DrawnSymbol = "lemon"

\* the table's cumulative weights in quarters: 1, 24.75, 48.5, 72.25, 96, 100.5
CumulativeWeights == <<4, 99, 194, 289, 384, 402>>

SymbolNames == <<"cherry", "lemon", "grape", "diamond", "bell", "star">>

\* the first symbol in table order whose cumulative weight is at least r
FirstReaching(r) ==
    SymbolNames[CHOOSE k \in 1..6 :
                    /\ CumulativeWeights[k] >= r
                    /\ \A j \in 1..(k - 1) : CumulativeWeights[j] < r]

(* C19: for every draw below the total weight the reel stopped by the draw
   holds the first symbol in table order whose cumulative weight is at least
   the draw - so the loop, not the fallback, has returned it - and each of
   the six symbols is returned for some such draw. *)
C19_FirstCumulativeSymbol ==
    /\ (DrawRecorded /\ lastOp.arg < 402) => DrawnSymbol = FirstReaching(lastOp.arg)
    /\ DrawRecorded =>
          {generateWeightedSymbol(r) : r \in 0..401} =
              {"cherry", "lemon", "grape", "diamond", "bell", "star"}
    /\ totalWeight = 402

C19_Witness ==
    /\ DrawRecorded
    /\ lastOp.arg = 384
    /\ DrawnSymbol = "bell"

\* how many of the possible draws select the symbol
DrawsSelecting(symbol) ==
    Cardinality({r \in 0..(totalWeight - 1) : generateWeightedSymbol(r) = symbol})

WeightOf(symbol) ==
    BASE_SYMBOL_WEIGHTS[CHOOSE k \in 1..Len(SYMBOLS) : SYMBOLS[k] = symbol]

(* C20: whenever a draw has selected a rare symbol, the premium symbol or
   the cherry, its weight in the table is strictly below the weight of each
   of the four common symbols, and fewer of the possible draws select it
   than select any one common symbol. *)
C20_RareBelowCommon ==
    (DrawRecorded /\ DrawnSymbol \in {"star", "cherry"}) =>
        \A common \in {"lemon", "grape", "diamond", "bell"} :
            /\ WeightOf(DrawnSymbol) < WeightOf(common)
            /\ DrawsSelecting(DrawnSymbol) < DrawsSelecting(common)

C20_Witness ==
    /\ DrawRecorded
    /\ DrawnSymbol = "star"
    /\ lastOp.arg = 401

(* C21: checkSmallYakuMatch(s) is true exactly when s is three copies of one
   symbol that is neither the cherry nor the premium symbol, and the
   hasSmallYaku of checkRoundResult is true exactly when some spin of the
   record is such a spin. *)
C21_SmallYakuIff ==
    /\ lastOp.op = "checkSmallYakuMatch" =>
          (lastOp.result <=>
              /\ Len(lastOp.arg) = 3
              /\ \A k \in 1..3 : lastOp.arg[k] = lastOp.arg[1]
              /\ lastOp.arg[1] \notin {"cherry", "star"})
    /\ lastOp.op = "checkRoundResult" =>
          (lastOp.result.hasSmallYaku <=> RecordSmallYaku(lastOp.arg))

C21_Witness ==
    /\ lastOp.op = "checkRoundResult"
    /\ lastOp.result.hasSmallYaku
    /\ Len(lastOp.arg) = 3
    /\ Premium(lastOp.arg[1])
    /\ SmallYaku(lastOp.arg[2])
    /\ Cherries(lastOp.arg[3]) = 1

(* C22: isPremiumFlag(s) is true exactly when s is three premium symbols; no
   spin is both a premium flag and a small yaku; and the hasPremiumFlag of
   checkRoundResult is true exactly when some spin of the record is a premium
   flag. *)
C22_PremiumFlagIff ==
    /\ lastOp.op = "isPremiumFlag" =>
          (lastOp.result <=> lastOp.arg = <<"star", "star", "star">>)
    /\ lastOp.op = "checkRoundResult" =>
          /\ lastOp.result.hasPremiumFlag <=> AnyPremium(lastOp.arg)
          /\ Len(lastOp.arg) = 1 =>
                ~(lastOp.result.hasPremiumFlag /\ lastOp.result.hasSmallYaku)

C22_Witness ==
    /\ lastOp.op = "checkRoundResult"
    /\ lastOp.result.hasPremiumFlag
    /\ lastOp.result.hasSmallYaku
    /\ Len(lastOp.arg) = 3
    /\ ~Premium(lastOp.arg[1])
    /\ Premium(lastOp.arg[2])
    /\ ~Premium(lastOp.arg[3])

(* C23: the cherry count of checkRoundResult is the number of cherries on all
   the reels of all the spins of the record, and countCherries gives the same
   number for the same record. *)
C23_CherryCountIsTotal ==
    /\ lastOp.op = "checkRoundResult" =>
          lastOp.result.cherryCount = RecordCherryCount(lastOp.arg)
    /\ lastOp.op = "countCherries" =>
          /\ lastOp.result = RecordCherryCount(lastOp.arg)
          /\ lastOp.result = classify(lastOp.arg).cherryCount

\* four cherries over two spins, three of them in the last
C23_Witness ==
    /\ lastOp.op = "checkRoundResult"
    /\ Len(lastOp.arg) = 2
    /\ Cherries(lastOp.arg[1]) = 1
    /\ Cherries(lastOp.arg[2]) = 3
    /\ lastOp.result.cherryCount = 4

(* C24: generatePremiumFlag returns exactly three symbols, all of them the
   premium symbol: isPremiumFlag of its result is true and
   checkSmallYakuMatch of its result is false. *)
C24_GeneratedFlagIsPremium ==
    lastOp.op = "generatePremiumFlag" =>
        /\ Len(lastOp.result) = 3
        /\ \A k \in DOMAIN lastOp.result : lastOp.result[k] = "star"
        /\ isPremiumFlag(lastOp.result)
        /\ ~checkSmallYakuMatch(lastOp.result)

C24_Witness ==
    /\ lastOp.op = "generatePremiumFlag"
    /\ lastOp.result = <<"star", "star", "star">>

\* the timeouts stopReel has scheduled for a completed spin
AfterSpinTimers == {k \in DOMAIN timers : timers[k].kind \in {"check", "next"}}

(* C25: the early exit taken on the completed spin alone is the one the whole
   record gives.  Whenever a spin has completed, that spin holds a cherry or
   is a small yaku exactly when the record including it has a positive cherry
   count or a small yaku, and stopReel has scheduled the resolution at once
   exactly in that case. *)
C25_LastSpinDecidesForRecord ==
    /\ \A k \in AfterSpinTimers :
          LET record == timers[k].results
              whole == classify(record).cherryCount > 0 \/ classify(record).hasSmallYaku
          IN  /\ Qualifies(record[Len(record)]) <=> whole
              /\ timers[k].kind = "check" <=> whole
    /\ (OnGame /\ game.allSpinResults # <<>>) =>
          (Qualifies(LastSpin) <=> AnyQualifies(game.allSpinResults))

\* a third spin that is a small yaku, after two spins that are not
C25_Witness ==
    /\ Len(timers) = 1
    /\ timers[1].kind = "check"
    /\ Len(timers[1].results) = 3
    /\ SmallYaku(timers[1].results[3])
    /\ Premium(timers[1].results[1])
    /\ game.allSpinResults = timers[1].results

\* the timeout of a first or second spin that came up as the premium flag
PremiumSpinPending ==
    /\ OnGame
    /\ timers # <<>>
    /\ Head(timers).kind \in {"check", "next"}
    /\ Head(timers).live
    /\ Head(timers).spinIndex < 2
    /\ Premium(Head(timers).results[Len(Head(timers).results)])

(* C26: a first or second spin of three premium symbols does not end the
   round: its timeout starts the next spin and resolves nothing.  The premium
   modal is shown only by a resolution, of a record whose last spin holds a
   cherry or is a small yaku or which has three spins, and a resolution of a
   record with a premium flag shows it whatever the later spins hold. *)
C26_PremiumWaitsForResolution ==
    [][/\ (PremiumSpinPending /\ timers' # timers) =>
             /\ Head(timers).kind = "next"
             /\ game'.isSpinning = AllOf(TRUE)
             /\ game'.currentSpinIndex = Head(timers).spinIndex + 1
             /\ resolutions' = resolutions
             /\ ~game'.showPremiumModal
             /\ timers' = <<>>
       /\ (OnGame /\ ~game.showPremiumModal /\ game'.showPremiumModal) =>
             /\ resolutions' = resolutions + 1
             /\ AnyPremium(resolvedRecord')
             /\ \/ Len(resolvedRecord') = 3
                \/ Qualifies(resolvedRecord'[Len(resolvedRecord')])
       /\ (OnGame /\ resolutions' = resolutions + 1 /\ AnyPremium(resolvedRecord')) =>
             /\ outcome' = "premium"
             /\ game'.showPremiumModal
             /\ ~game'.showDrinkModal
             /\ ~game'.showRushEffect
             /\ timers' = <<>>]_vars

\* the flag of the first spin shown when three cherries end the second
C26_Witness ==
    /\ OnGame
    /\ game.showPremiumModal
    /\ outcome = "premium"
    /\ Len(resolvedRecord) = 2
    /\ Premium(resolvedRecord[1])
    /\ Cherries(resolvedRecord[2]) = 3

\* the step appends a spin result to the record
SpinAppended == Len(game'.allSpinResults) = Len(game.allSpinResults) + 1

\* the reel is stopped by the step
StoppedNow(i) == game.isSpinning[i + 1] /\ ~game'.isSpinning[i + 1]

(* C27: every spin result of the record has exactly three entries, each one
   of the six symbols; the result appended is the reels as the stops of that
   spin left them - the reel stopped last as that stop drew it, the others as
   their stops of the same spin left them; and while the round lasts an
   appended result is never changed, by the reset of the reels for the next
   spin or by its stops. *)
C27_SpinResultsConcreteAndImmutable ==
    [][/\ \A n \in DOMAIN game'.allSpinResults :
             /\ Len(game'.allSpinResults[n]) = 3
             /\ \A k \in 1..3 : IsSymbol(game'.allSpinResults[n][k])
       /\ \A i \in Reels :
             /\ i \in stoppedReels' => IsSymbol(game'.reels[i + 1])
             /\ game'.isSpinning[i + 1] => game'.reels[i + 1] = "q"
       /\ (OnGame /\ SpinAppended) =>
             /\ game'.allSpinResults[Len(game'.allSpinResults)] = game'.reels
             /\ stoppedReels' = Reels
             /\ \A i \in Reels :
                   ~StoppedNow(i) =>
                       /\ i \in stoppedReels
                       /\ game'.reels[i + 1] = game.reels[i + 1]
       /\ (OnGame /\ currentScreen' = "game" /\ game'.allSpinResults # <<>>) =>
             /\ Len(game'.allSpinResults) >= Len(game.allSpinResults)
             /\ \A n \in DOMAIN game.allSpinResults :
                   game'.allSpinResults[n] = game.allSpinResults[n]]_vars

\* the second spin has one reel stopped and the first spin result is as recorded
C27_Witness ==
    /\ OnGame
    /\ game.currentSpinIndex = 1
    /\ game.allSpinResults = << <<"lemon", "star", "lemon">> >>
    /\ game.reels = <<"q", "star", "q">>
    /\ stoppedReels = {1}

\* nothing spins, nothing is shown and nothing is pending
Idle ==
    /\ OnGame
    /\ NoReelSpinning
    /\ ~game.showDrinkModal
    /\ ~game.showPremiumModal
    /\ ~game.showRushEffect
    /\ timers = <<>>

(* C28: liveness of a round, for a player who stops the spinning reels and
   closes the drink modal and timeouts that fire.  Every round started below
   the followed count is eventually resolved; every resolution is eventually
   followed by a fresh round with all three reels spinning or by the result
   screen; and the game never stays for ever with no reel spinning, no
   overlay and nothing pending. *)
C28_RoundLiveness ==
    []( /\ (OnGame /\ resolutions = 0 /\ game.continueCount < MaxContinue)
               => <>(OnGame /\ resolutions = 1)
        /\ (OnGame /\ resolutions = 1
               /\ (outcome \in {"proceed", "end"} \/ game.continueCount < MaxContinue))
               => <>((OnGame /\ resolutions = 0 /\ FreshRound(game))
                        \/ currentScreen = "result")
        /\ <>(~Idle) )

\* the round after three cherries, the drink modal closed by the player
C28_Witness ==
    /\ OnGame
    /\ FreshRound(game)
    /\ resolutions = 0
    /\ continuedRounds = 1
    /\ game.drinkCount = 3

\* the premium modal is mounted
PremiumMounted(g) == g.showPremiumModal

(* C29: while the premium modal is mounted its phase moves only from
   selecting to blackout and from blackout to result; selectedOption is null
   before the result phase, is drawn (everyone or self) by the step that
   enters it and stays as drawn; onClose is called once, from the result
   phase, by the last timeout of the modal, which unmounts it and leaves none
   of its timeouts pending; and every step taken while the modal is mounted
   is one of its own timeouts, never an input of the player. *)
C29_PremiumPhasesForward ==
    [][/\ (OnGame /\ ~PremiumMounted(game) /\ PremiumMounted(game')) =>
             /\ phase' = "selecting"
             /\ selectedOption' = "null"
             /\ premiumTimer'.kind = "blackout"
       /\ (OnGame /\ PremiumMounted(game)) =>
             /\ lastOp'.op \in {"setPhase", "handlePremiumModalClose"}
             /\ premiumTimer.live
             /\ premiumTimer.kind =
                   (CASE phase = "selecting" -> "blackout"
                      [] phase = "blackout" -> "result"
                      [] phase = "result" -> "close")
             /\ (phase = "result") <=> (selectedOption \in {"everyone", "self"})
             /\ (phase # "result") <=> (selectedOption = "null")
       /\ (OnGame /\ PremiumMounted(game) /\ PremiumMounted(game')) =>
             /\ <<phase, phase'>> \in {<<"selecting", "blackout">>,
                                       <<"blackout", "result">>}
             /\ selectedOption' # selectedOption => phase' = "result"
             /\ UNCHANGED <<game, timers>>
       /\ (OnGame /\ PremiumMounted(game) /\ ~PremiumMounted(game')) =>
             /\ phase = "result"
             /\ lastOp'.op = "handlePremiumModalClose"
             /\ premiumTimer' = NoTimer
             /\ game'.continueCount = game.continueCount + 1
             /\ timers' = <<proceedTimer(TRUE)>>
       /\ (OnGame /\ ~PremiumMounted(game)) =>
             /\ premiumTimer = NoTimer
             /\ lastOp'.op # "handlePremiumModalClose"]_vars

\* the result phase, the draw made
C29_Witness ==
    /\ OnGame
    /\ PremiumMounted(game)
    /\ phase = "result"
    /\ selectedOption = "self"
    /\ premiumTimer.kind = "close"

\* only the last spin of the record holds a cherry or is a small yaku, and
\* what checkRoundResult computes from it
OnlyLastQualifies(record) ==
    /\ \A n \in 1..(Len(record) - 1) : ~Qualifies(record[n])
    /\ classify(record).cherryCount <= 3
    /\ ~(classify(record).cherryCount > 0 /\ classify(record).hasSmallYaku)

(* C30: in every record handed to checkRoundResult - by a pending timeout of
   stopReel or by the resolution made - only the last spin can hold a cherry
   or be a small yaku: the cherry count is at most 3, a positive cherry count
   and hasSmallYaku never hold together, and the drinkCount of a drink modal
   shown is 1, 2 or 3. *)
C30_OnlyLastSpinQualifies ==
    /\ \A k \in AfterSpinTimers : OnlyLastQualifies(timers[k].results)
    /\ OnlyLastQualifies(resolvedRecord)
    /\ (OnGame /\ game.showDrinkModal) =>
          /\ game.drinkCount \in 1..3
          /\ game.drinkCount = IF classify(resolvedRecord).cherryCount > 0
                                THEN classify(resolvedRecord).cherryCount
                                ELSE 1

\* the reveal for a small yaku on the second spin
C30_Witness ==
    /\ OnGame
    /\ game.showDrinkModal
    /\ game.drinkCount = 1
    /\ Len(resolvedRecord) = 2
    /\ ~Qualifies(resolvedRecord[1])
    /\ SmallYaku(resolvedRecord[2])

(* C31: the session ends only after a round of three spins.  Whenever
   showBlackoutAndEnd has been reached - the resolution decided the end, the
   game-over overlay is shown - the record resolved and the record of the
   screen have exactly three spin results and remainingStops is 0. *)
C31_EndAfterThreeSpins ==
    /\ (OnGame /\ outcome = "end") =>
          /\ Len(resolvedRecord) = 3
          /\ game.remainingStops = 0
    /\ (OnGame /\ game.showGameOver) =>
          /\ outcome = "end"
          /\ Len(game.allSpinResults) = 3
          /\ game.allSpinResults = resolvedRecord
          /\ game.remainingStops = 0
          /\ game.currentSpinIndex = 2

\* the end of the game after one continued round
C31_Witness ==
    /\ OnGame
    /\ game.showGameOver
    /\ game.showRushEffect
    /\ Len(resolvedRecord) = 3
    /\ game.remainingStops = 0
    /\ game.continueCount = 1

\* the reels stopped so far in the round: three for each recorded spin and
\* those of the spin still active
StopsOfRound(record, stopped) ==
    3 * Len(record) + (IF stopped = Reels THEN 0 ELSE Cardinality(stopped))

(* C32: remainingStops is 9 minus the number of reels stopped so far in the
   round, so it stays within 0..9; a stopReel that stops a reel takes exactly
   one from it, and it changes otherwise only when a new round gives the
   nine stops back. *)
C32_RemainingStopsCountsStops ==
    [][/\ game'.remainingStops = 9 - StopsOfRound(game'.allSpinResults, stoppedReels')
       /\ game'.remainingStops \in 0..9
       /\ (\E i \in Reels : StoppedNow(i)) =>
             /\ game'.remainingStops = game.remainingStops - 1
             /\ Cardinality({i \in Reels : StoppedNow(i)}) = 1
             /\ lastOp'.op = "stopReel"
       /\ game'.remainingStops # game.remainingStops =>
             \/ \E i \in Reels : StoppedNow(i)
             \/ game'.remainingStops = 9 /\ FreshRound(game')
             \/ game' = GameScreenState]_vars

\* the second round of a session, five reels stopped
C32_Witness ==
    /\ OnGame
    /\ game.continueCount = 1
    /\ game.remainingStops = 4
    /\ Len(game.allSpinResults) = 1
    /\ Cardinality(stoppedReels) = 2

\* the overlays of the game screen that are visible
VisibleOverlays(g) ==
    {name \in {"drink", "premium", "rush"} :
        \/ name = "drink" /\ g.showDrinkModal
        \/ name = "premium" /\ g.showPremiumModal
        \/ name = "rush" /\ g.showRushEffect}

(* C33: at most one of the drink modal, the premium modal and the RUSH or
   game-over overlay is visible, and none while a reel spins; the reels start
   spinning only together, by a startSpin, and a spinning reel stops only by
   its own stopReel. *)
C33_OneOverlayNoSpin ==
    [][/\ Cardinality(VisibleOverlays(game')) <= 1
       /\ VisibleOverlays(game') # {} => \A i \in Reels : ~game'.isSpinning[i + 1]
       /\ game'.showGameOver => game'.showRushEffect
       /\ \A i \in Reels :
             /\ (~game.isSpinning[i + 1] /\ game'.isSpinning[i + 1]) =>
                   /\ game'.isSpinning = AllOf(TRUE)
                   /\ game'.reels = AllOf("q")
                   /\ lastOp'.op \in {"handleGameStart", "handleRevival",
                                      "startSpin", "startNewRound"}
             /\ StoppedNow(i) =>
                   /\ lastOp'.op = "stopReel"
                   /\ IsSymbol(game'.reels[i + 1])
                   /\ \A j \in Reels \ {i} :
                         game'.isSpinning[j + 1] = game.isSpinning[j + 1]]_vars

\* the RUSH overlay alone, after the drink modal was closed
C33_Witness ==
    /\ OnGame
    /\ VisibleOverlays(game) = {"rush"}
    /\ ~game.showGameOver
    /\ game.drinkCount = 3
    /\ lastOp.op = "handleDrinkModalClose"

(* C34: the screen changes only from home to game on start, from game to
   result on the end of the game, from result to home on back-to-home and
   from result to game on revival; the home screen is left only by an
   explicit start, never by a revival left over from a result screen. *)
C34_ScreenTransitions ==
    [][currentScreen' # currentScreen =>
          \/ /\ currentScreen = "home" /\ currentScreen' = "game"
             /\ lastOp'.op = "handleGameStart"
          \/ /\ currentScreen = "game" /\ currentScreen' = "result"
             /\ lastOp'.op = "onGameEnd"
          \/ /\ currentScreen = "result" /\ currentScreen' = "home"
             /\ lastOp'.op = "handleHomeClick"
          \/ /\ currentScreen = "result" /\ currentScreen' = "game"
             /\ lastOp'.op = "handleRevival"]_vars

\* the step is a revival that shows the game screen
RevivalEntersGame ==
    /\ lastOp'.op = "handleRevival"
    /\ currentScreen # "game"
    /\ currentScreen' = "game"

(* C35: a revival enters the game screen as a fresh session - continueCount
   0 whatever count the ended session reached, an empty record, spin 0
   active with its three reels spinning, no overlay, none of the session
   history - while continueRate and the count reported by the ended session
   keep their values. *)
C35_RevivalStartsFresh ==
    [][RevivalEntersGame =>
          /\ game'.continueCount = 0
          /\ FreshRound(game')
          /\ game' = startNewRound(GameScreenState)
          /\ VisibleOverlays(game') = {}
          /\ timers' = <<>>
          /\ continuedRounds' = 0
          /\ continueRate' = continueRate
          /\ finalContinueCount' = finalContinueCount]_vars

\* revived after a session that reached one continuation at the rate chosen
C35_Witness ==
    /\ OnGame
    /\ lastOp.op = "handleRevival"
    /\ finalContinueCount = 1
    /\ game.continueCount = 0
    /\ continueRate = 70
    /\ FreshRound(game)

\* a timeout of stopReel without the rate its closure holds
WithoutRate(t) == [t EXCEPT !.rate = 0]

(* C36: the symbols do not depend on continueRate.  At every stop of a reel
   the reels are those the same draw gives at each of the six rates, and the
   timeout scheduled for a completed spin is, but for the rate it holds, the
   one scheduled at each of the six rates: the same record, the same kind.
   At a resolution the rate changes the decision for some draw only when the
   record holds no cherry, no small yaku and no premium flag, and for such a
   record it does. *)
C36_SymbolsIgnoreRate ==
    [][/\ \A i \in Reels :
             (OnGame /\ StoppedNow(i)) =>
                 \E random \in Draws :
                     \A rate \in ContinueRates :
                         /\ game'.reels = newReelsAt(view, i, rate, random)
                         /\ timers' # <<>> =>
                               WithoutRate(timers'[1]) =
                                   WithoutRate(afterSpinTimer(view,
                                       newReelsAt(view, i, rate, random), rate))
       /\ (OnGame /\ resolutions' = resolutions + 1) =>
             ((\E rate \in ContinueRates : \E random \in Percent :
                   decision(resolvedRecord', rate, random)
                       # decision(resolvedRecord', continueRate, random))
              <=> Plain(resolvedRecord'))]_vars

\* a small yaku resolved on the second spin, the round continued without reveal
C36_Witness ==
    /\ OnGame
    /\ resolutions = 1
    /\ outcome = "proceed"
    /\ Len(resolvedRecord) = 2
    /\ SmallYaku(resolvedRecord[2])
    /\ continueRate = 70

\* the reels that spin
Spinning(g) == {i \in Reels : g.isSpinning[i + 1]}

\* the step is a press of the Space key
SpacePressed == lastOp'.op = "handleKeyPress" /\ OnGame

(* C37: a press of the Space key stops exactly one reel, the spinning reel of
   lowest index, and leaves the other reels as they are; pressed after the
   reels 0..n-1 it stops reel n, so that Space alone stops the reels in the
   order 0, 1, 2; and when no reel spins a press changes nothing. *)
C37_SpaceStopsLowestSpinning ==
    [][SpacePressed =>
          IF Spinning(game) # {}
          THEN /\ \A i \in Spinning(game) :
                     StoppedNow(i) <=> (\A j \in Spinning(game) : i <= j)
               /\ Cardinality(Spinning(game')) = Cardinality(Spinning(game)) - 1
               /\ \A i \in Reels \ Spinning(game) :
                     game'.reels[i + 1] = game.reels[i + 1]
               /\ \A n \in 0..2 :
                     stoppedReels = 0..(n - 1) => stoppedReels' = 0..n
          ELSE /\ game' = game
               /\ timers' = timers
               /\ UNCHANGED <<appVars, resultVars, premiumVars, roundHistory,
                              sessionHistory>>]_vars

\* Space after the STOP button of reel 0: reel 1 is the one stopped
C37_Witness ==
    /\ OnGame
    /\ lastOp = Op("handleKeyPress", 1)
    /\ Spinning(game) = {2}
    /\ game.currentSpinIndex = 1

(* C38: generateSpinResult(false, true) returns three copies of one of the
   four common symbols, never the cherry and never the premium symbol:
   checkSmallYakuMatch of its result is true and isPremiumFlag of it false. *)
C38_YakuSpinIsSmallYaku ==
    (Returned /\ lastOp.op = "generateSpinResult" /\ ~lastOp.arg[1] /\ lastOp.arg[2]) =>
        /\ \E x \in {"lemon", "grape", "diamond", "bell"} : lastOp.result = <<x, x, x>>
        /\ checkSmallYakuMatch(lastOp.result)
        /\ ~isPremiumFlag(lastOp.result)

\* the highest draw gives three bells
C38_Witness ==
    /\ Returned
    /\ lastOp.op = "generateSpinResult"
    /\ lastOp.arg = <<FALSE, TRUE, 99>>
    /\ lastOp.result = <<"bell", "bell", "bell">>

(* C39: checkPremiumFlag is a 1/319 gate: it returns true for the draws in
   the first 1/319 of the range and false for every other draw, so false is
   a possible result. *)
C39_PremiumGateIsRare ==
    (Returned /\ lastOp.op = "checkPremiumFlag") =>
        lastOp.result = (lastOp.arg[1] < 1)
====
